---- MODULE Spec2Model ----
(***************************************************************************)
(* Subscription API (gin + gorm over one Postgres table "subscriptions").  *)
(* The table is the only persistent state.  A request is received, handled *)
(* by one handler, and answered.  Spec runs the handlers one at a time;    *)
(* SpecConc interleaves two of them at single database statements.         *)
(***************************************************************************)
EXTENDS Integers, FiniteSets, Sequences, TLC

VARIABLES
    table,      \* rows of "subscriptions": a set of Subscription records
    pc,         \* "idle" or "handling": whether a request is in flight
    req,        \* the request in flight (NoReq when none)
    resp,       \* the last response written (NoResp while one is in flight)
    workers,    \* SpecConc: each worker's handler position and locals
    deleted     \* SpecConc: ids removed by a Delete and not created since

vars == <<table, pc, req, resp, workers, deleted>>

----------------------------------------------------------------------------
(* Value domains.  "" and 0 are Go's zero values.                          *)

Ids == {"", "1", "abc"}
\* gin's :id segment never matches an empty string
PathIds == Ids \ {""}
\* the ids strconv.Atoi accepts (gorm then treats the string as a primary key)
NumericIds == {"1"}
ServiceNames == {"", "Netflix", "Hulu"}
Prices == {0, 15}
UserIds == {"", "u1"}
StartDates == {"", "2024-01-01"}
EndDates == {"", "2024-12-31"}
\* query parameters of /subscriptions/total
QueryUserIds == {"u1", "u2"}
QueryServiceNames == {"Netflix", "Hulu"}

FieldNames == {"ID", "ServiceName", "Price", "UserID", "StartDate", "EndDate"}

Subscription ==
    [ID : Ids, ServiceName : ServiceNames, Price : Prices,
     UserID : UserIds, StartDate : StartDates, EndDate : EndDates]

\* var subscription Subscription
ZeroSubscription ==
    [ID |-> "", ServiceName |-> "", Price |-> 0,
     UserID |-> "", StartDate |-> "", EndDate |-> ""]

\* A JSON body: the keys it carries and their values (zero where absent).
Bodies ==
    {b \in [has : SUBSET FieldNames, val : Subscription] :
        \A f \in FieldNames \ b.has : b.val[f] = ZeroSubscription[f]}

NoBody == [has |-> {}, val |-> ZeroSubscription]

----------------------------------------------------------------------------
(* Binding: encoding/json decodes onto the destination struct, then the    *)
(* validator checks the struct's binding tags.                             *)

\* json.Unmarshal: a key of the body overwrites the field, an absent key
\* leaves the destination's field as it is
Decode(dst, body) ==
    [f \in FieldNames |-> IF f \in body.has THEN body.val[f] ELSE dst[f]]

\* a mutant: the binding tag of Price is missing
ValidateNoPrice(s) ==
    /\ s.ServiceName # ""
    /\ s.UserID # ""
    /\ s.StartDate # ""

\* binding:"required" fails on the zero value of the field
Validate(s) ==
    /\ s.ServiceName # ""
    /\ s.Price # 0
    /\ s.UserID # ""
    /\ s.StartDate # ""

\* c.ShouldBindJSON(&subscription)
ShouldBindJSON(dst, body) ==
    LET s == Decode(dst, body)
    IN  [err |-> ~Validate(s), val |-> s]

----------------------------------------------------------------------------
(* gorm statements against the table.                                      *)

RowsWithId(t, id) == {r \in t : r.ID = id}

\* db.Create: INSERT; a duplicate primary key is an error and inserts nothing
DbCreate(t, s) ==
    IF RowsWithId(t, s.ID) # {}
    THEN [table |-> t, err |-> TRUE]
    ELSE [table |-> t \cup {s}, err |-> FALSE]

\* a mutant: the condition is dropped, the first row of the table is returned
DbFirstAnyRow(t, id) ==
    IF t = {}
    THEN [err |-> TRUE, val |-> ZeroSubscription]
    ELSE [err |-> FALSE, val |-> CHOOSE r \in t : TRUE]

\* db.First(&subscription, "id = ?", id): ErrRecordNotFound when no row matches
DbFirst(t, id) ==
    IF RowsWithId(t, id) = {}
    THEN [err |-> TRUE, val |-> ZeroSubscription]
    ELSE [err |-> FALSE, val |-> CHOOSE r \in RowsWithId(t, id) : TRUE]

\* UPDATE subscriptions SET <all fields> WHERE id = s.ID
DbUpdateAll(t, s) ==
    [table |-> IF RowsWithId(t, s.ID) = {} THEN t
               ELSE (t \ RowsWithId(t, s.ID)) \cup {s},
     rowsAffected |-> Cardinality(RowsWithId(t, s.ID))]

\* INSERT ... ON CONFLICT (id) DO UPDATE SET <all fields>
DbUpsert(t, s) == (t \ RowsWithId(t, s.ID)) \cup {s}

\* db.Save: with a zero primary key it is db.Create; otherwise UPDATE by the
\* struct's primary key and, when that touched no row, the upsert
DbSave(t, s) ==
    IF s.ID = ""
    THEN DbCreate(t, s).table
    ELSE IF DbUpdateAll(t, s).rowsAffected = 0
         THEN DbUpsert(t, s)
         ELSE DbUpdateAll(t, s).table

\* db.Delete(&Subscription{}, id) with a string id: a string that parses as a
\* number is a primary key; any other string is used as the WHERE clause
\* itself, and a bare word such as abc is no column of the table (an error).
\* Deleting no row is no error.
DbDelete(t, id) ==
    IF id \in NumericIds
    THEN [table |-> t \ RowsWithId(t, id), err |-> FALSE,
          rowsAffected |-> Cardinality(RowsWithId(t, id))]
    ELSE [table |-> t, err |-> TRUE, rowsAffected |-> 0]

\* the columns AutoMigrate creates for Subscription
TableColumns ==
    {"id", "service_name", "price", "user_id", "start_date", "end_date"}

\* Select("SUM(cost)")
SumColumn == "cost"

RECURSIVE SumPrice(_)
SumPrice(rows) ==
    IF rows = {} THEN 0
    ELSE LET r == CHOOSE x \in rows : TRUE
         IN  r.Price + SumPrice(rows \ {r})

\* Where("user_id = ? AND service_name = ?", userID, serviceName)
Matching(t, userID, serviceName) ==
    {r \in t : r.UserID = userID /\ r.ServiceName = serviceName}

\* ...Select("SUM(cost)").Scan(&total): a column the table does not have is
\* an error; SUM over no rows is NULL, which does not scan into a float64
DbSumScan(t, userID, serviceName) ==
    IF SumColumn \notin TableColumns \/ Matching(t, userID, serviceName) = {}
    THEN [err |-> TRUE, total |-> 0]
    ELSE [err |-> FALSE,
          total |-> IF SumColumn = "price"
                    THEN SumPrice(Matching(t, userID, serviceName))
                    ELSE 0]

----------------------------------------------------------------------------
(* Requests and responses.                                                 *)

NoReq ==
    [op |-> "none", id |-> "", body |-> NoBody, user_id |-> "", service_name |-> ""]

Requests ==
    {[op |-> "create", id |-> "", body |-> b, user_id |-> "", service_name |-> ""] :
        b \in Bodies}
    \cup {[op |-> "update", id |-> i, body |-> b, user_id |-> "", service_name |-> ""] :
        i \in PathIds, b \in Bodies}
    \cup {[op |-> o, id |-> i, body |-> NoBody, user_id |-> "", service_name |-> ""] :
        o \in {"get", "delete"}, i \in PathIds}
    \cup {[op |-> "total", id |-> "", body |-> NoBody, user_id |-> u, service_name |-> s] :
        u \in QueryUserIds, s \in QueryServiceNames}
    \cup {[op |-> "list", id |-> "", body |-> NoBody, user_id |-> "", service_name |-> ""]}

\* c.JSON(status, ...): kind tells what the body is
Response(op, id, status, kind, body, list, total) ==
    [op |-> op, id |-> id, status |-> status, kind |-> kind,
     body |-> body, list |-> list, total |-> total]

NoResp == Response("none", "", 0, "none", ZeroSubscription, {}, 0)

\* c.JSON(code, ErrorResponse{...})
ErrorResponse(op, id, status) ==
    Response(op, id, status, "message", ZeroSubscription, {}, 0)

\* c.JSON(code, subscription)
RecordResponse(op, id, status, s) ==
    Response(op, id, status, "record", s, {}, 0)

\* SpecConc: the handlers the HTTP server runs at the same time
NumWorkers == 2
Workers == 1 .. NumWorkers

\* a worker between requests
IdleWorker == [pc |-> "idle", subscription |-> ZeroSubscription]

Init ==
    /\ table = {}
    /\ pc = "idle"
    /\ req = NoReq
    /\ resp = NoResp
    /\ workers = [w \in Workers |-> IdleWorker]
    /\ deleted = {}

\* the router hands a request to its handler
Receive ==
    /\ pc = "idle"
    /\ \E r \in Requests : req' = r
    /\ pc' = "handling"
    /\ resp' = NoResp
    /\ UNCHANGED <<table, workers, deleted>>

Respond(r) ==
    /\ resp' = r
    /\ pc' = "idle"
    /\ req' = NoReq
    /\ UNCHANGED <<workers, deleted>>

createSubscription ==
    /\ pc = "handling"
    /\ req.op = "create"
    /\ LET bound == ShouldBindJSON(ZeroSubscription, req.body)
       IN  IF bound.err
           THEN /\ table' = table
                /\ Respond(ErrorResponse("create", "", 400))
           ELSE /\ table' = DbCreate(table, bound.val).table
                /\ Respond(RecordResponse("create", "", 201, bound.val))

getSubscriptions ==
    /\ pc = "handling"
    /\ req.op = "list"
    /\ table' = table
    /\ Respond(Response("list", "", 200, "array", ZeroSubscription, table, 0))

getSubscription ==
    /\ pc = "handling"
    /\ req.op = "get"
    /\ table' = table
    /\ LET found == DbFirst(table, req.id)
       IN  IF found.err
           THEN Respond(ErrorResponse("get", req.id, 404))
           ELSE Respond(RecordResponse("get", req.id, 200, found.val))

updateSubscription ==
    /\ pc = "handling"
    /\ req.op = "update"
    /\ LET found == DbFirst(table, req.id)
           bound == ShouldBindJSON(found.val, req.body)
       IN  IF found.err
           THEN /\ table' = table
                /\ Respond(ErrorResponse("update", req.id, 404))
           ELSE IF bound.err
           THEN /\ table' = table
                /\ Respond(ErrorResponse("update", req.id, 400))
           ELSE /\ table' = DbSave(table, bound.val)
                /\ Respond(RecordResponse("update", req.id, 200, bound.val))

deleteSubscription ==
    /\ pc = "handling"
    /\ req.op = "delete"
    /\ LET res == DbDelete(table, req.id)
       IN  /\ table' = res.table
           /\ IF res.err
              THEN Respond(ErrorResponse("delete", req.id, 404))
              ELSE Respond(Response("delete", req.id, 204, "empty",
                                    ZeroSubscription, {}, 0))

getTotalCost ==
    /\ pc = "handling"
    /\ req.op = "total"
    /\ table' = table
    /\ LET res == DbSumScan(table, req.user_id, req.service_name)
       IN  IF res.err
           THEN Respond(ErrorResponse("total", "", 500))
           ELSE Respond(Response("total", "", 200, "total",
                                 ZeroSubscription, {}, res.total))

Next ==
    \/ Receive
    \/ createSubscription
    \/ getSubscriptions
    \/ getSubscription
    \/ updateSubscription
    \/ deleteSubscription
    \/ getTotalCost

Spec == Init /\ [][Next]_vars

----------------------------------------------------------------------------
(* SpecConc: NumWorkers handlers run at once, one database statement per   *)
(* step; the service takes no lock and opens no transaction.  Only the     *)
(* handlers that write the table are interleaved.  Bodies carry no         *)
(* explicit zero values (for Create those decode like absent keys), and an *)
(* Update's body carries no ID key, so that the row an Update saves is the *)
(* row it read.                                                            *)

ConcBodies ==
    {b \in Bodies : \A f \in b.has : b.val[f] # ZeroSubscription[f]}

ConcUpdateBodies == {b \in ConcBodies : "ID" \notin b.has}

SetWorker(w, p, s) ==
    workers' = [workers EXCEPT ![w] = [pc |-> p, subscription |-> s]]

\* createSubscription: bind, then the INSERT
ConcCreate(w) ==
    /\ workers[w].pc = "idle"
    /\ \E b \in ConcBodies :
        LET bound == ShouldBindJSON(ZeroSubscription, b)
        IN  /\ ~bound.err
            /\ table' = DbCreate(table, bound.val).table
            /\ deleted' = deleted \ {bound.val.ID}
    /\ UNCHANGED <<pc, req, resp, workers>>

\* deleteSubscription: the DELETE
ConcDelete(w) ==
    /\ workers[w].pc = "idle"
    /\ \E id \in PathIds :
        LET res == DbDelete(table, id)
        IN  /\ table' = res.table
            /\ deleted' = IF res.rowsAffected > 0 THEN deleted \cup {id} ELSE deleted
    /\ UNCHANGED <<pc, req, resp, workers>>

\* updateSubscription up to db.Save: the SELECT of db.First, then the bind
\* onto the row it loaded (no statement); 404 and 400 end the handler
ConcUpdateFirst(w) ==
    /\ workers[w].pc = "idle"
    /\ \E id \in PathIds, b \in ConcUpdateBodies :
        LET found == DbFirst(table, id)
            bound == ShouldBindJSON(found.val, b)
        IN  /\ ~found.err
            /\ ~bound.err
            /\ SetWorker(w, "save", bound.val)
    /\ UNCHANGED <<table, pc, req, resp, deleted>>

\* db.Save, first statement: the UPDATE by primary key
ConcSaveUpdate(w) ==
    /\ workers[w].pc = "save"
    /\ LET res == DbUpdateAll(table, workers[w].subscription)
       IN  /\ table' = res.table
           /\ IF res.rowsAffected = 0
              THEN SetWorker(w, "upsert", workers[w].subscription)
              ELSE SetWorker(w, "idle", ZeroSubscription)
    /\ UNCHANGED <<pc, req, resp, deleted>>

\* db.Save, second statement: the upsert, when the UPDATE touched no row
ConcSaveUpsert(w) ==
    /\ workers[w].pc = "upsert"
    /\ table' = DbUpsert(table, workers[w].subscription)
    /\ SetWorker(w, "idle", ZeroSubscription)
    /\ UNCHANGED <<pc, req, resp, deleted>>

NextConc ==
    \E w \in Workers :
        \/ ConcCreate(w)
        \/ ConcDelete(w)
        \/ ConcUpdateFirst(w)
        \/ ConcSaveUpdate(w)
        \/ ConcSaveUpsert(w)

SpecConc == Init /\ [][NextConc]_vars

----------------------------------------------------------------------------
(* The claims.  A handler's step is the step from its request in flight    *)
(* (pc = "handling", req) to its response (resp') and the table it leaves  *)
(* (table').                                                               *)

RequiredFields == {"ServiceName", "Price", "UserID", "StartDate"}
MutableFields == {"ServiceName", "Price", "UserID", "StartDate", "EndDate"}

\* the body carries every required field with a non-zero value
AllRequiredPresent(b) ==
    \A f \in RequiredFields : f \in b.has /\ b.val[f] # ZeroSubscription[f]

Handling(op) == pc = "handling" /\ req.op = op

StoredIds(t) == {r.ID : r \in t}

\* C1: a Create whose payload has every required field responds 201 with a
\* body equal to the payload, and the payload is then the row stored under its
\* id (what a Get of that id issued right after would return).
C1_CreateReturnsAndPersists ==
    [][(Handling("create") /\ AllRequiredPresent(req.body))
        => /\ resp'.status = 201
           /\ resp'.body = req.body.val
           /\ RowsWithId(table', req.body.val.ID) = {req.body.val}]_vars

\* C2: a Delete of an id with no stored row responds 404 and leaves the table
\* unchanged.
C2_DeleteAbsentIs404 ==
    [][(Handling("delete") /\ RowsWithId(table, req.id) = {})
        => /\ resp'.status = 404
           /\ table' = table]_vars

\* C3: a Delete of an id with a stored row responds 204 and removes exactly
\* that row, so that no row with that id is stored afterwards (a Get of it
\* would respond 404) and every other row is unchanged.
C3_DeleteStoredRemovesIt ==
    [][(Handling("delete") /\ RowsWithId(table, req.id) # {})
        => /\ resp'.status = 204
           /\ table' = table \ RowsWithId(table, req.id)]_vars

\* C4: Total Cost responds 200 with the sum of Price over exactly the stored
\* rows whose user_id and service_name equal the query parameters (0 when
\* none matches), and never changes the table.
C4_TotalCostIsSum ==
    [][Handling("total")
        => /\ resp'.status = 200
           /\ resp'.total = SumPrice(Matching(table, req.user_id, req.service_name))
           /\ table' = table]_vars

\* C5: an Update of a stored id with a valid body carrying a value for every
\* mutable field responds 200 and leaves, under that id, a row with exactly
\* the body's values in every mutable field; an Update of an id that is not
\* stored responds 404 and leaves the table unchanged.
C5_UpdateReplacesMutableFields ==
    [][Handling("update")
        => IF RowsWithId(table, req.id) = {}
           THEN resp'.status = 404 /\ table' = table
           ELSE (AllRequiredPresent(req.body) /\ MutableFields \subseteq req.body.has)
                => /\ resp'.status = 200
                   /\ \E r \in RowsWithId(table', req.id) :
                        \A f \in MutableFields : r[f] = req.body.val[f]]_vars

\* C6: an Update of a stored id whose body Create would reject (a required
\* field missing or empty) responds 400 and leaves the table unchanged.
C6_UpdateValidatesLikeCreate ==
    [][(Handling("update") /\ RowsWithId(table, req.id) # {}
            /\ ~AllRequiredPresent(req.body))
        => /\ resp'.status = 400
           /\ table' = table]_vars

\* C7: a Create whose payload lacks a required field, or carries it empty,
\* responds 400 and leaves the table unchanged.
C7_CreateRejectsMissingRequired ==
    [][(Handling("create") /\ ~AllRequiredPresent(req.body))
        => /\ resp'.status = 400
           /\ resp'.kind = "message"
           /\ table' = table]_vars

\* a Create was answered 400 while rows were stored
C7_Witness ==
    /\ pc = "idle"
    /\ resp.op = "create"
    /\ resp.status = 400
    /\ Cardinality(table) >= 2

\* C8: Get by ID responds 200 with the stored row of that id when there is
\* one and 404 when there is none, and never changes the table.
C8_GetByIdFindsExactlyStored ==
    [][Handling("get")
        => /\ table' = table
           /\ IF RowsWithId(table, req.id) = {}
              THEN resp'.status = 404 /\ resp'.kind = "message"
              ELSE /\ resp'.status = 200
                   /\ resp'.kind = "record"
                   /\ RowsWithId(table, req.id) = {resp'.body}]_vars

\* a Get was answered 200 with one of several stored rows
C8_Witness ==
    /\ pc = "idle"
    /\ resp.op = "get"
    /\ resp.status = 200
    /\ resp.body \in table
    /\ resp.body.ID = resp.id
    /\ Cardinality(table) >= 2

\* C9: an Update on path id i never adds or removes a stored id and never
\* changes the row stored under an id other than i, whatever its body.
C9_UpdateTouchesOnlyPathId ==
    [][Handling("update")
        => /\ StoredIds(table') = StoredIds(table)
           /\ \A i \in Ids \ {req.id} :
                RowsWithId(table', i) = RowsWithId(table, i)]_vars

\* C10: under statement-level interleaving, an id removed by a Delete and not
\* created since has no stored row in any later state.
C10_DeleteIsFinal ==
    \A i \in deleted : RowsWithId(table, i) = {}

====
